---- MODULE Spec2Model ----
(***************************************************************************)
(* Model of app_api.py: the chat page (session state, sidebar, chat input) *)
(* and get_response, the model-fallback request dispatcher.                *)
(*                                                                         *)
(* Text is modelled by TLA+ strings; substring tests and lower() are       *)
(* computed character by character.  The pictographs that open the fixed   *)
(* messages and the icons are written as ASCII names between colons        *)
(* (":warning:"), since a module is ASCII text.                            *)
(***************************************************************************)
EXTENDS Integers, Sequences, FiniteSets, TLC

VARIABLES
    messages,       \* st.session_state.messages: the transcript
    current_mode,   \* st.session_state.current_mode
    event,          \* the widget that triggered the last script run
    user_input,     \* get_response: argument user_input
    mode,           \* get_response: argument mode
    pc,             \* get_response: "idle", "wait" (request outstanding),
                    \*               "returned", "raised"
    idx,            \* get_response: position of `model` in models_to_try
    inflight,       \* requests handed to the client and not yet answered
    log,            \* requests answered so far in this call, with the answer
    result,         \* value returned by the last get_response call
    stub,           \* what the client has answered for each candidate model
    run,            \* number of get_response calls started
    first           \* log and result of the first call

vars == <<messages, current_mode, event, user_input, mode, pc, idx,
          inflight, log, result, stub, run, first>>

pageVars == <<messages, current_mode, event>>
callVars == <<pc, idx, inflight, log, stub, first>>

----------------------------------------------------------------------------
(* Bounds *)

\* total number of chat submissions explored on the page
MaxSubmits == 2
\* number of get_response calls made against the same stub client
MaxCalls == 2

----------------------------------------------------------------------------
(* Python values and text *)

PyStr(s) == [type |-> "str", val |-> s]
PyNone == [type |-> "NoneType", val |-> ""]

\* the lower-case form of each upper-case ASCII letter
LowerOf ==
    ("A" :> "a") @@ ("B" :> "b") @@ ("C" :> "c") @@ ("D" :> "d") @@ ("E" :> "e") @@ ("F" :> "f") @@
    ("G" :> "g") @@ ("H" :> "h") @@ ("I" :> "i") @@ ("J" :> "j") @@ ("K" :> "k") @@ ("L" :> "l") @@
    ("M" :> "m") @@ ("N" :> "n") @@ ("O" :> "o") @@ ("P" :> "p") @@ ("Q" :> "q") @@ ("R" :> "r") @@
    ("S" :> "s") @@ ("T" :> "t") @@ ("U" :> "u") @@ ("V" :> "v") @@ ("W" :> "w") @@ ("X" :> "x") @@
    ("Y" :> "y") @@ ("Z" :> "z")

\* str.lower() on one character
LowerChar(c) == IF c \in DOMAIN LowerOf THEN LowerOf[c] ELSE c

RECURSIVE LowerFrom(_, _)
LowerFrom(s, k) ==
    IF k > Len(s) THEN ""
    ELSE LowerChar(SubSeq(s, k, k)) \o LowerFrom(s, k + 1)

\* str.lower()
Lower(s) == LowerFrom(s, 1)

\* Python's `p in s` for non-empty p
Contains(s, p) ==
    \E k \in 1..(Len(s) - Len(p) + 1) : SubSeq(s, k, k + Len(p) - 1) = p

----------------------------------------------------------------------------
(* Mode registry and candidate models *)

MODE_PROMPTS ==
    [m \in {"General Chat", "Grammar Checker", "Paragraph Writer", "Python Helper"} |->
        CASE m = "General Chat" ->
               [system_prompt |-> "You are a helpful and friendly English learning assistant. Help the user with their questions in a clear and engaging way.",
                icon |-> ":speech_balloon:"]
          [] m = "Grammar Checker" ->
               [system_prompt |-> "You are an expert English grammar teacher. Analyze the user's text for grammar errors, explain the mistakes, and provide corrected versions with clear explanations.",
                icon |-> ":pencil2:"]
          [] m = "Paragraph Writer" ->
               [system_prompt |-> "You are a creative writing assistant. Help users write well-structured, coherent paragraphs on various topics. Provide multiple style options (formal, casual, academic) when appropriate.",
                icon |-> ":memo:"]
          [] m = "Python Helper" ->
               [system_prompt |-> "You are a Python programming tutor. Help users understand Python concepts, debug code, write better code, and follow best practices. Provide clear explanations with examples.",
                icon |-> ":snake:"]]

ModeNames == DOMAIN MODE_PROMPTS

models_to_try ==
    << "Qwen/Qwen2.5-1.5B-Instruct",
       "mistralai/Mistral-7B-Instruct-v0.3",
       "meta-llama/Llama-3.2-3B-Instruct",
       "google/gemma-2-2b-it" >>

NumModels == Len(models_to_try)

----------------------------------------------------------------------------
(* The inference client: what one chat.completions.create call can do *)

ClientError(msg) == [kind |-> "error", msg |-> msg, choices |-> <<>>]
Completion(choices) == [kind |-> "completion", msg |-> "", choices |-> choices]
Unset == [kind |-> "unset", msg |-> "", choices |-> <<>>]

\* messages of the errors the client raises
ClientErrorMessages ==
    { "503 model_pending_deploy",
      "Model is not ready for inference",
      "401 Unauthorized",
      "Authentication failed",
      "rate limit exceeded",
      "401 Unauthorized: model_pending_deploy",
      "Model_Pending_Deploy" }

\* completions the client returns; the choices are message contents
ClientCompletions ==
    { <<>>,
      <<"She goes to school.", "Hello!">>,
      <<"unauthorized means not allowed">> }

ClientOutcomes ==
    { ClientError(m) : m \in ClientErrorMessages } \cup
    { Completion(c) : c \in ClientCompletions }

\* inputs of get_response
UserTexts == { "She go to school.", "What is a list?" }
UnregisteredModes == { "general chat", "Translator" }

----------------------------------------------------------------------------
(* get_response *)

\* Python exceptions
Exc(type, arg) == [type |-> type, arg |-> arg]
NoExc == Exc("", "")

\* str(e): a KeyError shows the repr of its key
Str(e) == IF e.type = "KeyError" THEN "'" \o e.arg \o "'" ELSE e.arg

WARMING_UP_MESSAGE ==
    ":warning: The model is warming up. Please wait a moment and try again. This happens when the model hasn't been used recently on the HuggingFace servers.\n\n**Tip:** Try clicking your message again in a few seconds."

AUTH_ERROR_MESSAGE ==
    ":x: Authentication error. Please check your HF_TOKEN in the .env file."

GENERIC_ERROR_PREFIX == "Error generating response: "

\* a handler that tests the authentication patterns before the transient ones
ExceptHandlerAuthFirst(e) ==
    LET error_msg == Str(e) IN
    IF Contains(Lower(error_msg), "authentication")
         \/ Contains(Lower(error_msg), "unauthorized")
    THEN PyStr(AUTH_ERROR_MESSAGE)
    ELSE IF Contains(error_msg, "model_pending_deploy")
              \/ Contains(error_msg, "not ready for inference")
    THEN PyStr(WARMING_UP_MESSAGE)
    ELSE PyStr(GENERIC_ERROR_PREFIX \o Str(e))

\* a handler that tests the authentication patterns without lower()
ExceptHandlerCaseSensitive(e) ==
    LET error_msg == Str(e) IN
    IF Contains(error_msg, "model_pending_deploy")
         \/ Contains(error_msg, "not ready for inference")
    THEN PyStr(WARMING_UP_MESSAGE)
    ELSE IF Contains(error_msg, "authentication")
              \/ Contains(error_msg, "unauthorized")
    THEN PyStr(AUTH_ERROR_MESSAGE)
    ELSE PyStr(GENERIC_ERROR_PREFIX \o Str(e))

\* a handler that shows the lower-cased message in the generic text
ExceptHandlerLoweredText(e) ==
    LET error_msg == Lower(Str(e)) IN
    IF Contains(Str(e), "model_pending_deploy")
         \/ Contains(Str(e), "not ready for inference")
    THEN PyStr(WARMING_UP_MESSAGE)
    ELSE IF Contains(error_msg, "authentication")
              \/ Contains(error_msg, "unauthorized")
    THEN PyStr(AUTH_ERROR_MESSAGE)
    ELSE PyStr(GENERIC_ERROR_PREFIX \o error_msg)

\* the outer `except Exception as e` clause
ExceptHandler(e) ==
    LET error_msg == Str(e) IN
    IF Contains(error_msg, "model_pending_deploy")
         \/ Contains(error_msg, "not ready for inference")
    THEN PyStr(WARMING_UP_MESSAGE)
    ELSE IF Contains(Lower(error_msg), "authentication")
              \/ Contains(Lower(error_msg), "unauthorized")
    THEN PyStr(AUTH_ERROR_MESSAGE)
    ELSE PyStr(GENERIC_ERROR_PREFIX \o Str(e))

\* a try statement whose except clause does not catch KeyError
OuterTryNoKeyError(e) ==
    IF e.type = "KeyError"
    THEN [pc |-> "raised", result |-> PyNone]
    ELSE [pc |-> "returned", result |-> ExceptHandler(e)]

\* the outer try statement: how an exception raised in its body leaves
\* get_response
OuterTry(e) == [pc |-> "returned", result |-> ExceptHandler(e)]

\* the request built for one candidate
CreateRequest(model, system_prompt, text) ==
    [model |-> model,
     messages |-> << [role |-> "system", content |-> system_prompt],
                     [role |-> "user", content |-> text] >>,
     max_tokens |-> 512,
     temperature |-> "0.7",
     top_p |-> "0.9"]

\* the exception the body of the inner try raises on a client outcome
ModelError(o) ==
    IF o.kind = "error" THEN Exc("HfHubHTTPError", o.msg)
    ELSE Exc("IndexError", "list index out of range")

\* a loop body that returns only from the last candidate
ModelAttemptNoShortCircuit(k, o) ==
    IF o.kind = "completion" /\ Len(o.choices) >= 1
         /\ models_to_try[k] = models_to_try[NumModels]
    THEN [kind |-> "return", value |-> PyStr(o.choices[1]), exc |-> NoExc, next |-> k]
    ELSE IF models_to_try[k] # models_to_try[NumModels]
    THEN [kind |-> "continue", value |-> PyNone, exc |-> NoExc, next |-> k + 1]
    ELSE [kind |-> "raise", value |-> PyNone, exc |-> ModelError(o), next |-> k]

\* a loop body that asks the failed candidate again
ModelAttemptRetry(k, o) ==
    IF o.kind = "completion" /\ Len(o.choices) >= 1
    THEN [kind |-> "return", value |-> PyStr(o.choices[1]), exc |-> NoExc, next |-> k]
    ELSE IF models_to_try[k] # models_to_try[NumModels]
    THEN [kind |-> "continue", value |-> PyNone, exc |-> NoExc, next |-> k]
    ELSE [kind |-> "raise", value |-> PyNone, exc |-> ModelError(o), next |-> k]

\* a loop body that raises the first failure of the call, not the last
ModelAttemptFirstError(k, o) ==
    IF o.kind = "completion" /\ Len(o.choices) >= 1
    THEN [kind |-> "return", value |-> PyStr(o.choices[1]), exc |-> NoExc, next |-> k]
    ELSE IF models_to_try[k] # models_to_try[NumModels]
    THEN [kind |-> "continue", value |-> PyNone, exc |-> NoExc, next |-> k + 1]
    ELSE [kind |-> "raise", value |-> PyNone,
          exc |-> IF log # <<>> THEN ModelError(log[1].outcome) ELSE ModelError(o),
          next |-> k]

\* one pass of the loop body for candidate k, once the client has answered
ModelAttempt(k, o) ==
    IF o.kind = "completion" /\ Len(o.choices) >= 1
    THEN [kind |-> "return", value |-> PyStr(o.choices[1]), exc |-> NoExc, next |-> k]
    ELSE IF models_to_try[k] # models_to_try[NumModels]
    THEN [kind |-> "continue", value |-> PyNone, exc |-> NoExc, next |-> k + 1]
    ELSE [kind |-> "raise", value |-> PyNone, exc |-> ModelError(o), next |-> k]

\* a loop that starts at the candidate that answered the previous call
StartIndexSticky == IF run >= 1 /\ first.log # <<>> THEN Len(first.log) ELSE 1

\* the loop starts at the head of models_to_try
StartIndex == 1

\* entering get_response: the mode lookup, then the first request
GetResponseEnter ==
    /\ run' = run + 1
    /\ log' = <<>>
    /\ IF mode \in DOMAIN MODE_PROMPTS
       THEN /\ pc' = "wait"
            /\ idx' = StartIndex
            /\ inflight' = { CreateRequest(models_to_try[StartIndex],
                                           MODE_PROMPTS[mode].system_prompt,
                                           user_input) }
            /\ result' = PyNone
            /\ first' = first
       ELSE LET out == OuterTry(Exc("KeyError", mode)) IN
            /\ pc' = out.pc
            /\ idx' = 0
            /\ inflight' = {}
            /\ result' = out.result
            /\ first' = IF run = 0
                        THEN [log |-> <<>>, result |-> out.result, pc |-> out.pc]
                        ELSE first
    /\ UNCHANGED <<stub, user_input, mode, pageVars>>

\* first call of get_response(user_input, mode)
Call ==
    /\ pc = "idle"
    /\ GetResponseEnter

\* a further call with the same arguments against the same stub client
CallAgain ==
    /\ pc = "returned"
    /\ run < MaxCalls
    /\ GetResponseEnter

\* the client answers the outstanding request; the loop body runs up to the
\* next request or to the end of get_response
Reply ==
    /\ pc = "wait"
    /\ \E req \in inflight :
       \E o \in (IF stub[idx] = Unset THEN ClientOutcomes ELSE {stub[idx]}) :
       LET a == ModelAttempt(idx, o)
           newlog == Append(log, [request |-> req, outcome |-> o])
           out == IF a.kind = "return"
                  THEN [pc |-> "returned", result |-> a.value]
                  ELSE OuterTry(a.exc)
       IN
       /\ stub' = [stub EXCEPT ![idx] = o]
       /\ log' = newlog
       /\ IF a.kind = "continue"
          THEN /\ idx' = a.next
               /\ inflight' = (inflight \ {req}) \cup
                      { CreateRequest(models_to_try[a.next],
                                      MODE_PROMPTS[mode].system_prompt,
                                      user_input) }
               /\ UNCHANGED <<pc, result, first>>
          ELSE /\ idx' = idx
               /\ inflight' = inflight \ {req}
               /\ pc' = out.pc
               /\ result' = out.result
               /\ first' = IF run = 1
                           THEN [log |-> newlog, result |-> out.result, pc |-> out.pc]
                           ELSE first
    /\ UNCHANGED <<run, user_input, mode, pageVars>>

InitCommon ==
    /\ messages = <<>>
    /\ current_mode = "General Chat"
    /\ event = [widget |-> "none", arg |-> ""]
    /\ pc = "idle"
    /\ idx = 0
    /\ inflight = {}
    /\ log = <<>>
    /\ result = PyNone
    /\ stub = [k \in 1..NumModels |-> Unset]
    /\ run = 0
    /\ first = [log |-> <<>>, result |-> PyNone, pc |-> "idle"]

\* get_response called on its own with any text and mode
Init ==
    /\ InitCommon
    /\ user_input \in UserTexts
    /\ mode \in ModeNames \cup UnregisteredModes

Next == Call \/ Reply

Spec == Init /\ [][Next]_vars

\* the same call repeated against the same stub client
NextTwice == Call \/ Reply \/ CallAgain

SpecTwice == Init /\ [][NextTwice]_vars

----------------------------------------------------------------------------
(* The page: one action per script run triggered by a widget *)

\* every value a get_response call can leave with, over all client behaviours
RECURSIVE LoopOutcomes(_)
LoopOutcomes(k) ==
    LET attempts == { ModelAttempt(k, o) : o \in ClientOutcomes } IN
    UNION { CASE a.kind = "return" -> { [pc |-> "returned", result |-> a.value] }
              [] a.kind = "continue" -> LoopOutcomes(a.next)
              [] a.kind = "raise" -> { OuterTry(a.exc) }
          : a \in attempts }

GetResponseOutcomes(m) ==
    IF m \in DOMAIN MODE_PROMPTS
    THEN LoopOutcomes(StartIndex)
    ELSE { OuterTry(Exc("KeyError", m)) }

\* a transcript that puts the new turn first
AppendTurnFront(msgs, role, content) ==
    <<[role |-> role, content |-> content]>> \o msgs

\* st.session_state.messages.append({"role": role, "content": content})
AppendTurn(msgs, role, content) ==
    Append(msgs, [role |-> role, content |-> content])

\* key of the sidebar button of a mode
ButtonKey(mode_name) == "mode_" \o mode_name

\* a sidebar loop that stores the key of the clicked button
ClickedModeKey(key) == key

\* the value the sidebar loop stores when the button with this key is clicked
ClickedMode(key) == CHOOSE mode_name \in DOMAIN MODE_PROMPTS : ButtonKey(mode_name) = key

\* a mode button is clicked
SelectMode ==
    \E key \in { ButtonKey(mode_name) : mode_name \in DOMAIN MODE_PROMPTS } :
        /\ current_mode' = ClickedMode(key)
        /\ event' = [widget |-> "button", arg |-> key]
        /\ UNCHANGED <<messages, user_input, mode, result, run, callVars>>

\* the Clear Chat button is clicked
ClearChat ==
    /\ messages' = <<>>
    /\ event' = [widget |-> "button", arg |-> "Clear Chat"]
    /\ UNCHANGED <<current_mode, user_input, mode, result, run, callVars>>

\* a text is submitted in the chat input
Submit ==
    /\ run < MaxSubmits
    /\ \E prompt \in UserTexts :
       \E out \in GetResponseOutcomes(current_mode) :
        /\ event' = [widget |-> "chat_input", arg |-> prompt]
        /\ user_input' = prompt
        /\ mode' = current_mode
        /\ run' = run + 1
        /\ pc' = out.pc
        /\ result' = out.result
        /\ messages' =
              IF out.pc = "returned"
              THEN AppendTurn(AppendTurn(messages, "user", PyStr(prompt)),
                              "assistant", out.result)
              ELSE AppendTurn(messages, "user", PyStr(prompt))
        /\ UNCHANGED <<current_mode, idx, inflight, log, stub, first>>

\* the session state after the first script run
InitPage ==
    /\ InitCommon
    /\ user_input = ""
    /\ mode = ""

NextPage == SelectMode \/ ClearChat \/ Submit

SpecPage == InitPage /\ [][NextPage]_vars

----------------------------------------------------------------------------
(* Vocabulary of the properties *)

\* the client raised, or returned a completion without a first choice
Fails(o) == o.kind = "error" \/ (o.kind = "completion" /\ o.choices = <<>>)

\* the client returned a completion with a first choice
Succeeds(o) == o.kind = "completion" /\ o.choices # <<>>

\* the message of a failed attempt
FailureMessage(o) ==
    IF o.kind = "error" THEN o.msg ELSE "list index out of range"

\* log entry k is the request to candidate k
AskedInOrder(k) == log[k].request.model = models_to_try[k]

\* every candidate was requested in turn and failed
AllFailed ==
    /\ Len(log) = NumModels
    /\ \A k \in 1..NumModels : AskedInOrder(k) /\ Fails(log[k].outcome)

LastMessage == FailureMessage(log[NumModels].outcome)

HasTransientPattern(m) ==
    Contains(m, "model_pending_deploy") \/ Contains(m, "not ready for inference")

HasAuthPattern(m) ==
    Contains(Lower(m), "unauthorized") \/ Contains(Lower(m), "authentication")

----------------------------------------------------------------------------
(* Properties of get_response, under Spec *)

\* C1: get_response never raises to its caller: for every mode (registered
\* or not), text and client behaviour, a call is either waiting for the
\* client's answer to one request or has returned a string.
C1_NeverRaises ==
    /\ pc # "raised"
    /\ pc = "returned" => result.type = "str"
    /\ run > 0 /\ pc # "returned" => pc = "wait" /\ Cardinality(inflight) = 1

C1_Witness ==
    /\ pc = "returned"
    /\ mode = "Translator"
    /\ log = <<>>
    /\ result = PyStr("Error generating response: 'Translator'")

\* C2: for every N from 0 to NumModels - 1, once the first N candidates have
\* failed and candidate N+1 has returned a completion, the call has returned
\* exactly the content of that completion's first choice, after exactly N+1
\* requests and with nothing further requested.
C2_FirstSuccessReturned ==
    \A N \in 0..(NumModels - 1) :
        ( /\ Len(log) >= N + 1
          /\ \A k \in 1..N : AskedInOrder(k) /\ Fails(log[k].outcome)
          /\ AskedInOrder(N + 1)
          /\ Succeeds(log[N + 1].outcome) )
        => /\ pc = "returned"
           /\ result = PyStr(log[N + 1].outcome.choices[1])
           /\ Len(log) = N + 1
           /\ inflight = {}

C2_Witness ==
    /\ pc = "returned"
    /\ Len(log) = 3
    /\ Fails(log[1].outcome) /\ Fails(log[2].outcome)
    /\ log[3].outcome = Completion(<<"She goes to school.", "Hello!">>)
    /\ result = PyStr("She goes to school.")

\* C3: when every candidate fails and the last failure message contains
\* "model_pending_deploy" or "not ready for inference", the call returns
\* exactly the warming-up message, whatever else the message contains and
\* whatever the earlier failures were.
C3_TransientMessage ==
    (AllFailed /\ HasTransientPattern(LastMessage))
        => pc = "returned" /\ result = PyStr(WARMING_UP_MESSAGE)

C3_Witness ==
    /\ AllFailed
    /\ LastMessage = "401 Unauthorized: model_pending_deploy"
    /\ log[1].outcome = ClientError("Authentication failed")
    /\ result = PyStr(WARMING_UP_MESSAGE)

\* C4 as stated: when every candidate fails and the last failure message
\* contains "unauthorized" or "authentication" in any letter case, the call
\* returns the check-credential message.
C4_AuthAlways ==
    (AllFailed /\ HasAuthPattern(LastMessage))
        => pc = "returned" /\ result = PyStr(AUTH_ERROR_MESSAGE)

\* C4 amended: when every candidate fails and the last failure message
\* contains "unauthorized" or "authentication" in any letter case and
\* contains neither "model_pending_deploy" nor "not ready for inference",
\* the call returns the check-credential message.
C4_AuthUnlessTransient ==
    (AllFailed /\ HasAuthPattern(LastMessage) /\ ~HasTransientPattern(LastMessage))
        => pc = "returned" /\ result = PyStr(AUTH_ERROR_MESSAGE)

C4_Witness ==
    /\ AllFailed
    /\ LastMessage = "401 Unauthorized"
    /\ result = PyStr(AUTH_ERROR_MESSAGE)

\* C5: when every candidate fails and the last failure message matches none
\* of the patterns, the call returns "Error generating response: " followed
\* by the raw message; on total failure exactly one of the three message
\* forms is returned.
C5_GenericMessage ==
    AllFailed =>
        LET generic == PyStr("Error generating response: " \o LastMessage)
            forms == << result = PyStr(WARMING_UP_MESSAGE),
                        result = PyStr(AUTH_ERROR_MESSAGE),
                        result = generic >>
        IN  /\ pc = "returned"
            /\ Cardinality({ j \in 1..3 : forms[j] }) = 1
            /\ (~HasTransientPattern(LastMessage) /\ ~HasAuthPattern(LastMessage))
                   => result = generic

C5_Witness ==
    /\ AllFailed
    /\ LastMessage = "rate limit exceeded"
    /\ result = PyStr("Error generating response: rate limit exceeded")

\* C8: within one call the candidates are requested one at a time in
\* declaration order: at most one request is outstanding, request k+1 exists
\* only after request k has failed, no candidate is requested twice, and the
\* call is over after at most NumModels requests.
C8_OneAtATimeInOrder ==
    LET asked == Len(log) + Cardinality(inflight) IN
    /\ Cardinality(inflight) <= 1
    /\ asked <= NumModels
    /\ \A k \in 1..Len(log) : AskedInOrder(k)
    /\ \A r \in inflight : r.model = models_to_try[Len(log) + 1]
    /\ \A k \in 1..Len(log) : k < asked => Fails(log[k].outcome)
    /\ \A j, k \in 1..Len(log) : log[j].request.model = log[k].request.model => j = k
    /\ \A r \in inflight : \A k \in 1..Len(log) : log[k].request.model # r.model
    /\ Len(log) = NumModels => pc = "returned"

C8_Witness ==
    /\ pc = "wait"
    /\ Len(log) = 3
    /\ inflight = { CreateRequest("google/gemma-2-2b-it",
                                  MODE_PROMPTS["Grammar Checker"].system_prompt,
                                  "She go to school.") }

\* C9: a failure of a candidate that is not the last is swallowed and the
\* next candidate is tried; when all candidates fail the returned text is
\* the classification of the last candidate's failure alone.
C9_OnlyLastFailureSurfaced ==
    /\ \A k \in 1..Len(log) :
          (k < NumModels /\ Fails(log[k].outcome)) =>
              \/ Len(log) > k /\ AskedInOrder(k + 1)
              \/ Len(log) = k /\ pc = "wait"
                   /\ \E r \in inflight : r.model = models_to_try[k + 1]
    /\ AllFailed =>
          /\ pc = "returned"
          /\ result = ExceptHandler(ModelError(log[NumModels].outcome))

C9_Witness ==
    /\ AllFailed
    /\ log[1].outcome = ClientError("503 model_pending_deploy")
    /\ log[2].outcome = ClientError("401 Unauthorized")
    /\ log[3].outcome = Completion(<<>>)
    /\ LastMessage = "rate limit exceeded"
    /\ result = PyStr("Error generating response: rate limit exceeded")

----------------------------------------------------------------------------
(* Repeated calls, under SpecTwice *)

\* C6: a call repeated with the same text and mode against the same stub
\* client issues the same requests, gets the same answers and returns the
\* same value as the first call.
C6_SameCallSameResult ==
    (run >= 2 /\ pc = "returned") =>
        /\ first.pc = "returned"
        /\ log = first.log
        /\ result = first.result

C6_Witness ==
    /\ run = 2
    /\ pc = "returned"
    /\ Len(log) = 3
    /\ Succeeds(log[3].outcome)
    /\ log = first.log
    /\ result = first.result

----------------------------------------------------------------------------
(* Properties of the page, under SpecPage *)

\* the transcript alternates user and assistant turns
WellFormedTranscript ==
    /\ Len(messages) % 2 = 0
    /\ Len(messages) <= 2 * run
    /\ \A j \in 1..Len(messages) :
          messages[j].role = (IF j % 2 = 1 THEN "user" ELSE "assistant")

\* a step of the page changes the transcript only by a clear or by appending
\* the user turn and the assistant turn of one submission
TranscriptStep ==
    \/ messages' = messages
    \/ /\ event' = [widget |-> "button", arg |-> "Clear Chat"]
       /\ messages' = <<>>
    \/ /\ event'.widget = "chat_input"
       /\ run' = run + 1
       /\ result' \in { o.result : o \in GetResponseOutcomes(current_mode) }
       /\ messages' = messages \o
              << [role |-> "user", content |-> PyStr(event'.arg)],
                 [role |-> "assistant", content |-> result'] >>

ModeRegistered ==
    /\ current_mode \in DOMAIN MODE_PROMPTS
    /\ run = 0 /\ event.widget = "none" => current_mode = "General Chat"
    /\ run > 0 => mode \in DOMAIN MODE_PROMPTS

ModeStep ==
    /\ current_mode' # current_mode =>
          /\ event'.widget = "button"
          /\ event'.arg = ButtonKey(current_mode')
          /\ current_mode' \in DOMAIN MODE_PROMPTS
    /\ run' # run => mode' = current_mode /\ current_mode' = current_mode

\* C10: the current mode is always a registered mode name: "General Chat" at
\* first, changed only by a mode button to that button's mode, unchanged by
\* submissions and Clear Chat; every get_response call of the page is given
\* a registered mode.
C10_ModeAlwaysRegistered ==
    /\ []ModeRegistered
    /\ [][ModeStep]_vars

C10_Witness ==
    /\ current_mode = "Python Helper"
    /\ run = 1
    /\ mode = "Python Helper"
    /\ event.widget = "chat_input"
    /\ Len(messages) = 2

====
